---------------------------- MODULE Spec2Model ----------------------------
(***************************************************************************)
(* Task routing, prompt construction and response parsing of the           *)
(* multi-agent research service (task_orchestrator.py, agents.py).         *)
(*                                                                         *)
(* Python strings are sequences of characters; a character is a one-       *)
(* character TLA+ string, except the non-ASCII characters, which are named *)
(* by their code point ("U+2022").  A document body is a sequence of       *)
(* position-tagged characters (the integers 1..n), so that a slice of it   *)
(* shows which characters it holds.                                        *)
(***************************************************************************)
EXTENDS Integers, Sequences, FiniteSets, TLC

VARIABLES
    pc,             \* "idle" | "awaiting" (backend call in flight) | "done" | "failed"
    op,             \* the operation invoked: "none" | "run_task_with_document" | ...
    task,           \* the task description (or research query) passed in
    document_text,  \* the document argument: [present, text]
    task_type,      \* the kind TaskRouter.identify_task_type resolved
    handler,        \* the TaskExecutor handler that was dispatched to
    prompt,         \* the prompt handed to groq_generate
    response,       \* the text groq_generate returned
    result,         \* the record the operation returned
    error,          \* the exception the operation ended with: "none" | "BackendError" | "IndexError"
    log,            \* the calls of groq_generate so far and how each ended
    stage,          \* run_research_pipeline: the agent whose call is in flight
    research,       \* run_research_pipeline: the record researcher_agent returned
    summary,        \* run_research_pipeline: the text summarizer_agent returned
    critique,       \* run_research_pipeline: the record critic_agent returned
    reply,          \* groq_generate: the HTTP response requests.post returned
    message,        \* groq_generate: the text of the exception it raised
    inv,            \* concurrent invocations of the two operations: id -> frame
    task_queue,     \* app.py: task id -> status record
    task_results,   \* app.py: task id -> result record
    background,     \* app.py: task id -> frame of its execute_task_with_pdf
    temp_files,     \* the temporary files that exist: path -> uploaded PDF
    task_rows,      \* db.py: the rows of table task_results, by task id
    served,         \* app.py: the requests the endpoints answered, with their responses
    history_calls,  \* db.py: the calls of save_history made, with their arguments
    research_history, \* db.py: the rows of table research_history
    request_files   \* the temporary files of the endpoints that exist: path -> upload

\* the locals of one run of run_research_pipeline
pipelineVars == <<stage, research, summary, critique>>

\* the locals of one call of groq_generate
adapterVars == <<reply, message>>

\* what run_task_with_document and researcher_agent leave alone
\* the dictionaries of app.py, its background tasks, files and table
appVars == <<task_queue, task_results, background, temp_files, task_rows>>

\* what the request endpoints of app.py read and write
endpointVars == <<served, history_calls, research_history, request_files>>

notCore == <<pipelineVars, adapterVars, inv, appVars, endpointVars>>

\* what run_research_pipeline leaves alone
notPipeline == <<adapterVars, inv, appVars, endpointVars>>

\* what groq_generate leaves alone
notAdapter ==
    <<task, document_text, task_type, handler, response, pipelineVars, inv, appVars,
      endpointVars>>

vars == <<pc, op, task, document_text, task_type, handler, prompt, response, result, error,
          log, pipelineVars, adapterVars, inv, appVars, endpointVars>>

\* what the concurrent invocations leave alone: the state of the single call
notConcurrent ==
    <<pc, op, task, document_text, task_type, handler, prompt, response, result, error,
      log, pipelineVars, adapterVars, appVars, endpointVars>>

\* what the endpoints and background tasks of app.py leave alone
notApp ==
    <<pc, op, task, document_text, task_type, handler, prompt, response, result, error,
      log, pipelineVars, adapterVars, inv, endpointVars>>

\* what the request endpoints leave alone
notEndpoints ==
    <<pc, op, task, document_text, task_type, handler, prompt, response, result, error,
      log, pipelineVars, adapterVars, inv, appVars>>

---------------------------------------------------------------------------
(* Bounds of the model *)

\* a task description is a concatenation of at most MaxFrags fragments
MaxFrags == 2
\* a free-form backend response is a concatenation of at most MaxRespFrags fragments
MaxRespFrags == 4
\* a well-formed backend response has at most MaxKwLines bullet lines
MaxKwLines == 22
\* the invocations that run concurrently
MaxInvocations == 2
\* the tasks submitted to /execute_pdf_task
MaxTasks == 2
\* documents are up to DocSlack characters longer than each handler's budget
DocSlack == 1
\* the clock readings datetime.now() may give
MaxClock == 2

---------------------------------------------------------------------------
(* Python's str operations, on sequences of characters *)

Chars(s) == [i \in 1..Len(s) |-> SubSeq(s, i, i)]

Min(a, b) == IF a <= b THEN a ELSE b

\* the non-ASCII characters that occur in the sources
Bullet == "U+2022"
ACirc  == "U+00E2"
Euro   == "U+20AC"
Cent   == "U+00A2"

UpperCase == Chars("ABCDEFGHIJKLMNOPQRSTUVWXYZ")
LowerCase == Chars("abcdefghijklmnopqrstuvwxyz")

\* the lower-case letter of every upper-case letter
ToLower ==
    [c \in {UpperCase[i] : i \in 1..Len(UpperCase)} |->
        LowerCase[CHOOSE i \in 1..Len(UpperCase) : UpperCase[i] = c]]

\* str.lower() of one character
LowerChar(c) == IF c \in DOMAIN ToLower THEN ToLower[c] ELSE c

\* s.lower()
Lower(s) == [i \in 1..Len(s) |-> LowerChar(s[i])]

\* the least index at which sub occurs in s, 0 when it does not (s.find(sub) + 1)
Find(s, sub) ==
    LET at == {i \in 1..(Len(s) - Len(sub) + 1) : SubSeq(s, i, i + Len(sub) - 1) = sub}
    IN  IF at = {} THEN 0 ELSE CHOOSE i \in at : \A j \in at : i <= j

\* sub in s
Contains(s, sub) ==
    \E i \in 1..(Len(s) - Len(sub) + 1) : SubSeq(s, i, i + Len(sub) - 1) = sub

\* s[:n]
Slice(s, n) == SubSeq(s, 1, Min(n, Len(s)))

\* s.split(sep, 1)
Split1(s, sep) ==
    LET i == Find(s, sep)
    IN  IF i = 0 THEN <<s>>
        ELSE <<SubSeq(s, 1, i - 1), SubSeq(s, i + Len(sep), Len(s))>>

\* s.replace(old, "")
RECURSIVE RemoveAll(_, _)
RemoveAll(s, old) ==
    LET i == Find(s, old)
    IN  IF i = 0 THEN s
        ELSE SubSeq(s, 1, i - 1) \o RemoveAll(SubSeq(s, i + Len(old), Len(s)), old)

\* the whitespace and line-break characters of the model's alphabet
Whitespace == {" ", "\n", "\t"}
LineBreak  == {"\n"}

\* s.lstrip(chars)
LStrip(s, chars) ==
    LET keep == {i \in 1..Len(s) : s[i] \notin chars}
    IN  IF keep = {} THEN <<>>
        ELSE SubSeq(s, CHOOSE i \in keep : \A j \in keep : i <= j, Len(s))

\* s.rstrip(chars)
RStrip(s, chars) ==
    LET keep == {i \in 1..Len(s) : s[i] \notin chars}
    IN  IF keep = {} THEN <<>>
        ELSE SubSeq(s, 1, CHOOSE i \in keep : \A j \in keep : i >= j)

\* s.strip()
Strip(s) == RStrip(LStrip(s, Whitespace), Whitespace)

\* s.splitlines(): the lines of s without their line breaks; a final line
\* break opens no empty last line
RECURSIVE SplitLines(_)
SplitLines(s) ==
    IF s = <<>> THEN <<>>
    ELSE LET brk == {i \in 1..Len(s) : s[i] \in LineBreak}
         IN  IF brk = {} THEN <<s>>
             ELSE LET i == CHOOSE k \in brk : \A j \in brk : k <= j
                  IN  <<SubSeq(s, 1, i - 1)>> \o SplitLines(SubSeq(s, i + 1, Len(s)))

---------------------------------------------------------------------------
(* TaskRouter.identify_task_type *)

\* the keyword lists of the chain, in its order
KeywordExtractionKeywords ==
    <<Chars("keyword"), Chars("extract keyword"), Chars("list keyword"), Chars("find keyword")>>

SummarizationKeywords ==
    <<Chars("summarize"), Chars("summary"), Chars("main points"), Chars("brief"), Chars("overview")>>

DateExtractionKeywords ==
    <<Chars("date"), Chars("timeline"), Chars("when"), Chars("year"), Chars("schedule")>>

RecommendationKeywords ==
    <<Chars("recommend"), Chars("suggest"), Chars("advice"), Chars("proposal")>>

AnalysisKeywords ==
    <<Chars("analyze"), Chars("analysis"), Chars("evaluate"), Chars("assess"), Chars("review")>>

InformationExtractionKeywords ==
    <<Chars("find"), Chars("extract"), Chars("list"), Chars("identify"), Chars("locate")>>

\* any(keyword in task_lower for keyword in keywords)
AnyKeywordIn(task_lower, keywords) ==
    \E k \in 1..Len(keywords) : Contains(task_lower, keywords[k])

\* the chain with the date branch tested before the summarization branch
identify_task_type_reordered(t) ==
    LET task_lower == Lower(t)
    IN  IF AnyKeywordIn(task_lower, KeywordExtractionKeywords)
        THEN "keyword_extraction"
        ELSE IF AnyKeywordIn(task_lower, DateExtractionKeywords)
        THEN "date_extraction"
        ELSE IF AnyKeywordIn(task_lower, SummarizationKeywords)
        THEN "summarization"
        ELSE IF AnyKeywordIn(task_lower, RecommendationKeywords)
        THEN "recommendation_extraction"
        ELSE IF AnyKeywordIn(task_lower, AnalysisKeywords)
        THEN "analysis"
        ELSE IF AnyKeywordIn(task_lower, InformationExtractionKeywords)
        THEN "information_extraction"
        ELSE "general_analysis"

\* the chain whose last branch returns a label outside the enumeration
identify_task_type_general(t) ==
    LET task_lower == Lower(t)
    IN  IF AnyKeywordIn(task_lower, KeywordExtractionKeywords)
        THEN "keyword_extraction"
        ELSE IF AnyKeywordIn(task_lower, SummarizationKeywords)
        THEN "summarization"
        ELSE IF AnyKeywordIn(task_lower, DateExtractionKeywords)
        THEN "date_extraction"
        ELSE IF AnyKeywordIn(task_lower, RecommendationKeywords)
        THEN "recommendation_extraction"
        ELSE IF AnyKeywordIn(task_lower, AnalysisKeywords)
        THEN "analysis"
        ELSE IF AnyKeywordIn(task_lower, InformationExtractionKeywords)
        THEN "information_extraction"
        ELSE "general"

\* the chain whose last keyword branch returns the default label
identify_task_type_fallthrough(t) ==
    LET task_lower == Lower(t)
    IN  IF AnyKeywordIn(task_lower, KeywordExtractionKeywords)
        THEN "keyword_extraction"
        ELSE IF AnyKeywordIn(task_lower, SummarizationKeywords)
        THEN "summarization"
        ELSE IF AnyKeywordIn(task_lower, DateExtractionKeywords)
        THEN "date_extraction"
        ELSE IF AnyKeywordIn(task_lower, RecommendationKeywords)
        THEN "recommendation_extraction"
        ELSE IF AnyKeywordIn(task_lower, AnalysisKeywords)
        THEN "analysis"
        ELSE "general_analysis"

identify_task_type(t) ==
    LET task_lower == Lower(t)
    IN  IF AnyKeywordIn(task_lower, KeywordExtractionKeywords)
        THEN "keyword_extraction"
        ELSE IF AnyKeywordIn(task_lower, SummarizationKeywords)
        THEN "summarization"
        ELSE IF AnyKeywordIn(task_lower, DateExtractionKeywords)
        THEN "date_extraction"
        ELSE IF AnyKeywordIn(task_lower, RecommendationKeywords)
        THEN "recommendation_extraction"
        ELSE IF AnyKeywordIn(task_lower, AnalysisKeywords)
        THEN "analysis"
        ELSE IF AnyKeywordIn(task_lower, InformationExtractionKeywords)
        THEN "information_extraction"
        ELSE "general_analysis"

---------------------------------------------------------------------------
(* Arguments and records *)

\* document_text=None
NoDocument == [present |-> FALSE, text |-> <<>>]

\* a document body of n characters, each tagged with its position
MkDoc(n) == [present |-> TRUE, text |-> [i \in 1..n |-> i]]

\* Python truthiness of document_text: neither None nor ""
Truthy(d) == d.present /\ d.text # <<>>

NoPrompt == [template |-> "none"]
NoResult == [none |-> TRUE]

\* dict.update: the entries of m replace and extend those of r
\* an update in which the entries already present win
UpdateKeepingExisting(r, m) ==
    [k \in (DOMAIN r) \cup (DOMAIN m) |-> IF k \in DOMAIN r THEN r[k] ELSE m[k]]

Update(r, m) ==
    [k \in (DOMAIN r) \cup (DOMAIN m) |-> IF k \in DOMAIN m THEN m[k] ELSE r[k]]

\* s.count(sub): the non-overlapping occurrences of sub in s
RECURSIVE Count(_, _)
Count(s, sub) ==
    LET i == Find(s, sub)
    IN  IF i = 0 THEN 0 ELSE 1 + Count(SubSeq(s, i + Len(sub), Len(s)), sub)

---------------------------------------------------------------------------
(* Marker-based parsing of a backend response *)

KEYWORDS == Chars("KEYWORDS:")
NOTES    == Chars("NOTES:")
ANALYSIS == Chars("ANALYSIS:")

\* the characters lstrip removes in researcher_agent: "-", the three
\* characters U+00E2 U+20AC U+00A2 the source file holds, "*" and " "
ResearcherBullets == {"-", ACirc, Euro, Cent, "*", " "}

\* the characters lstrip removes in execute_keyword_extraction
KeywordBullets == {"-", Bullet, "*", " "}

\* line.strip().lstrip(bullets).strip()
CleanLine(line, bullets) == Strip(LStrip(Strip(line), bullets))

\* the loop over kw_block.splitlines(): the non-empty cleaned lines, in order
KeywordLines(kw_block, bullets) ==
    LET lines   == SplitLines(kw_block)
        cleaned == [i \in 1..Len(lines) |-> CleanLine(lines[i], bullets)]
        NonEmpty(l) == l # <<>>
    IN  SelectSeq(cleaned, NonEmpty)

\* a guard that lets a response with one marker only into the structured branch
HasEitherMarker(resp, first, second) ==
    Contains(resp, first) \/ Contains(resp, second)

\* first in response and second in response
HasBothMarkers(resp, first, second) ==
    Contains(resp, first) /\ Contains(resp, second)

\* the parse of researcher_agent with the fallback notes stripped of whitespace
ResearcherParseStripped(resp) ==
    IF HasBothMarkers(resp, KEYWORDS, NOTES)
    THEN LET parts    == Split1(resp, NOTES)
             kw_block == Strip(RemoveAll(parts[1], KEYWORDS))
         IN  IF Len(parts) < 2
             THEN [raised |-> TRUE, keywords |-> <<>>, notes |-> resp]
             ELSE [raised   |-> FALSE,
                   keywords |-> KeywordLines(kw_block, ResearcherBullets),
                   notes    |-> Strip(parts[2])]
    ELSE [raised |-> FALSE, keywords |-> <<>>, notes |-> Strip(resp)]

\* The parse of researcher_agent: keywords (not yet capped), notes, and
\* whether indexing parts[1] raised IndexError.
ResearcherParse(resp) ==
    IF HasBothMarkers(resp, KEYWORDS, NOTES)
    THEN LET parts    == Split1(resp, NOTES)
             kw_block == Strip(RemoveAll(parts[1], KEYWORDS))
         IN  IF Len(parts) < 2
             THEN [raised |-> TRUE, keywords |-> <<>>, notes |-> resp]
             ELSE [raised   |-> FALSE,
                   keywords |-> KeywordLines(kw_block, ResearcherBullets),
                   notes    |-> Strip(parts[2])]
    ELSE [raised |-> FALSE, keywords |-> <<>>, notes |-> resp]

\* the record researcher_agent returns, without the cap on keywords
ResearcherRecordUncapped(resp, d) ==
    LET p == ResearcherParse(resp)
    IN  [keywords |-> p.keywords,
         notes    |-> p.notes,
         sources  |-> IF Truthy(d) THEN <<"Document analysis">> ELSE <<"Web research">>]

\* the record researcher_agent returns
ResearcherRecord(resp, d) ==
    LET p == ResearcherParse(resp)
    IN  [keywords |-> Slice(p.keywords, 10),
         notes    |-> p.notes,
         sources  |-> IF Truthy(d) THEN <<"Document analysis">> ELSE <<"Web research">>]

\* The parse of execute_keyword_extraction.
KeywordExtractionParse(resp) ==
    IF HasBothMarkers(resp, KEYWORDS, ANALYSIS)
    THEN LET parts    == Split1(resp, ANALYSIS)
             kw_block == Strip(RemoveAll(parts[1], KEYWORDS))
         IN  IF Len(parts) < 2
             THEN [raised |-> TRUE, keywords |-> <<>>, analysis |-> <<>>]
             ELSE [raised   |-> FALSE,
                   keywords |-> KeywordLines(kw_block, KeywordBullets),
                   analysis |-> Strip(parts[2])]
    ELSE [raised |-> FALSE, keywords |-> <<>>, analysis |-> resp]

\* the record execute_keyword_extraction returns
KeywordExtractionRecord(resp) ==
    LET p == KeywordExtractionParse(resp)
    IN  [task_type     |-> "keyword_extraction",
         keywords      |-> Slice(p.keywords, 20),
         analysis      |-> p.analysis,
         keyword_count |-> Len(p.keywords)]

---------------------------------------------------------------------------
(* TaskExecutor: the prompt of each handler and the record it returns *)

\* the prompt of execute_keyword_extraction with the budget of execute_general_analysis
execute_keyword_extraction_prompt_12000(d, t) ==
    [template |-> "execute_keyword_extraction", task |-> t, document |-> TRUE,
     body |-> Slice(d.text, 12000), max_tokens |-> 500]

execute_keyword_extraction_prompt(d, t) ==
    [template |-> "execute_keyword_extraction", task |-> t, document |-> TRUE,
     body |-> Slice(d.text, 8000), max_tokens |-> 500]

execute_summarization_prompt(d, t) ==
    [template |-> "execute_summarization", task |-> t, document |-> TRUE,
     body |-> Slice(d.text, 10000), max_tokens |-> 700]

execute_date_extraction_prompt(d, t) ==
    [template |-> "execute_date_extraction", task |-> t, document |-> TRUE,
     body |-> Slice(d.text, 8000), max_tokens |-> 600]

execute_recommendation_extraction_prompt(d, t) ==
    [template |-> "execute_recommendation_extraction", task |-> t, document |-> TRUE,
     body |-> Slice(d.text, 8000), max_tokens |-> 600]

execute_general_analysis_prompt(d, t) ==
    [template |-> "execute_general_analysis", task |-> t, document |-> TRUE,
     body |-> Slice(d.text, 12000), max_tokens |-> 800]

execute_summarization_record(resp) ==
    [task_type |-> "summarization", response |-> resp, summary_length |-> Len(resp)]

execute_date_extraction_record(resp) ==
    [task_type |-> "date_extraction", response |-> resp,
     contains_timeline |-> Contains(resp, Chars("TIMELINE:"))]

execute_recommendation_extraction_record(resp) ==
    [task_type |-> "recommendation_extraction", response |-> resp,
     recommendation_count |-> Count(resp, Chars("- Recommendation"))]

execute_general_analysis_record(resp) ==
    [task_type |-> "general_analysis", response |-> resp, analysis_complete |-> TRUE]

\* a chain whose information_extraction branch runs the keyword handler
DispatchInformationToKeywords(kind) ==
    IF kind = "keyword_extraction" THEN "execute_keyword_extraction"
    ELSE IF kind = "summarization" THEN "execute_summarization"
    ELSE IF kind = "date_extraction" THEN "execute_date_extraction"
    ELSE IF kind = "recommendation_extraction" THEN "execute_recommendation_extraction"
    ELSE IF kind = "information_extraction" THEN "execute_keyword_extraction"
    ELSE "execute_general_analysis"

\* the if/elif chain of run_task_with_document: the handler a kind runs
Dispatch(kind) ==
    IF kind = "keyword_extraction" THEN "execute_keyword_extraction"
    ELSE IF kind = "summarization" THEN "execute_summarization"
    ELSE IF kind = "date_extraction" THEN "execute_date_extraction"
    ELSE IF kind = "recommendation_extraction" THEN "execute_recommendation_extraction"
    ELSE IF kind = "information_extraction" THEN "execute_general_analysis"
    ELSE "execute_general_analysis"

HandlerPrompt(h, d, t) ==
    CASE h = "execute_keyword_extraction"        -> execute_keyword_extraction_prompt(d, t)
      [] h = "execute_summarization"             -> execute_summarization_prompt(d, t)
      [] h = "execute_date_extraction"           -> execute_date_extraction_prompt(d, t)
      [] h = "execute_recommendation_extraction" -> execute_recommendation_extraction_prompt(d, t)
      [] h = "execute_general_analysis"          -> execute_general_analysis_prompt(d, t)

HandlerRecord(h, resp) ==
    CASE h = "execute_keyword_extraction"        -> KeywordExtractionRecord(resp)
      [] h = "execute_summarization"             -> execute_summarization_record(resp)
      [] h = "execute_date_extraction"           -> execute_date_extraction_record(resp)
      [] h = "execute_recommendation_extraction" -> execute_recommendation_extraction_record(resp)
      [] h = "execute_general_analysis"          -> execute_general_analysis_record(resp)

\* metadata whose document_length is the length of the longest slice
TaskMetadataTruncated(t, kind, d, now) ==
    [user_task           |-> t,
     task_type           |-> kind,
     document_length     |-> Min(Len(d.text), 12000),
     processed_chars     |-> Min(Len(d.text), 12000),
     execution_timestamp |-> now]

\* the "Add metadata" update of run_task_with_document
TaskMetadata(t, kind, d, now) ==
    [user_task           |-> t,
     task_type           |-> kind,
     document_length     |-> Len(d.text),
     processed_chars     |-> Min(Len(d.text), 12000),
     execution_timestamp |-> now]

---------------------------------------------------------------------------
(* researcher_agent: its prompt *)

\* context is the query, or the document's first 15000 characters and the query
researcher_agent_prompt(query, d) ==
    IF Truthy(d)
    THEN [template |-> "researcher_agent", task |-> query, document |-> TRUE,
          body |-> Slice(d.text, 15000), max_tokens |-> 800]
    ELSE [template |-> "researcher_agent", task |-> query, document |-> FALSE,
          body |-> <<>>, max_tokens |-> 800]

---------------------------------------------------------------------------
(* run_research_pipeline: the arguments it passes on, the prompts of the   *)
(* three later agents, and the record it returns                           *)

\* a pipeline that hands the summarizer the first keyword along with the notes
SummarizerArgumentWithKeyword(r) ==
    (IF r.keywords = <<>> THEN <<>> ELSE r.keywords[1]) \o r.notes

\* what run_research_pipeline hands to summarizer_agent: research["notes"]
SummarizerArgument(r) == r.notes

\* the texts a prompt embeds are its inputs, in the order of the template
summarizer_agent_prompt(notes) ==
    [template |-> "summarizer_agent", inputs |-> <<notes>>, max_tokens |-> 400]

critic_agent_prompt(s) ==
    [template |-> "critic_agent", inputs |-> <<s>>, max_tokens |-> 350]

\* the template embeds the summary and critique['critique']
writer_agent_prompt(s, c) ==
    [template |-> "writer_agent", inputs |-> <<s, c.critique>>, max_tokens |-> 700]

\* critic_agent wraps the backend's text
critic_agent_record(resp) == [critique |-> resp]

\* document_analysis is "document_text is not None"
PipelineRecord(r, s, c, final_doc, d) ==
    [keywords |-> r.keywords,
     research |-> [sources |-> r.sources, notes |-> r.notes, keywords |-> r.keywords],
     summary |-> s,
     critique |-> c,
     final |-> final_doc,
     document_analysis |-> d.present]

---------------------------------------------------------------------------
(* The inputs the operations are called with *)

\* words of a task description: keywords of several categories in several
\* cases, two halves of a keyword ("up" + "date"), and words that match nothing
TaskFrags ==
    {Chars("Summarize "), Chars("timeline"), Chars("KeyWord"), Chars("recommend"),
     Chars("Analyze"), Chars("find "), Chars("up"), Chars("date"), Chars("x")}

\* the concatenations of at most n fragments
RECURSIVE Concats(_, _)
Concats(frags, n) ==
    IF n = 0 THEN {<<>>}
    ELSE LET shorter == Concats(frags, n - 1)
         IN  shorter \cup {s \o f : s \in shorter, f \in frags}

ExampleTask == Chars("please summarize the timeline")

Tasks == Concats(TaskFrags, MaxFrags) \cup {ExampleTask}

\* one task description of every kind
KindTasks ==
    {Chars("list keywords"), Chars("Summary"), Chars("when"), Chars("advice"),
     Chars("review"), Chars("locate"), Chars("hello")}

\* the slices the handlers and researcher_agent take
Budgets == {8000, 10000, 12000, 15000}

DocLens == {0, 3} \cup {b + k : b \in Budgets, k \in (-1)..DocSlack}

ShortDoc == MkDoc(3)

\* every task with a short document, and a task of every kind with every document
TaskCalls ==
    {<<t, ShortDoc>> : t \in Tasks} \cup {<<t, MkDoc(n)>> : t \in KindTasks, n \in DocLens}

Queries == {Chars("solar power"), Chars("find keywords")}

ResearchCalls ==
    {<<q, NoDocument>> : q \in Queries} \cup {<<q, MkDoc(n)>> : q \in Queries, n \in DocLens}

\* the response the prompts ask for
ExampleResponse == Chars("KEYWORDS:\n- alpha\n- beta\n\nNOTES:\nsome notes")

\* backend responses of the operations' specification
Responses ==
    {<<>>,
     ExampleResponse,
     Chars("KEYWORDS:\n- alpha\n* beta\n\nANALYSIS:\n why "),
     Chars("no sections"),
     Chars("TIMELINE:\n- Recommendation 1\n- Recommendation 2")}

\* the parts a free-form backend response is made of
RespFrags ==
    {KEYWORDS, NOTES, ANALYSIS, Chars("\n"), Chars("- a "), <<Bullet>> \o Chars("c")}

FreeResponses == Concats(RespFrags, MaxRespFrags)

\* the keywords of a well-formed response
Items ==
    <<Chars("alpha"), Chars("beta"), <<Euro>> \o Chars("5 fee"),
      <<ACirc>> \o Chars("ge"), Chars("x y")>>

Item(i) == Items[((i - 1) % Len(Items)) + 1]

\* n bullet lines, holding the items off+1 .. off+n
RECURSIVE BulletLines(_, _, _)
BulletLines(n, bullet, off) ==
    IF n = 0 THEN <<>>
    ELSE BulletLines(n - 1, bullet, off) \o <<bullet, " ">> \o Item(off + n) \o <<"\n">>

\* 'KEYWORDS:' + n bullet lines + blank line + marker + text
Shaped(n, bullet, off, marker) ==
    KEYWORDS \o <<"\n">> \o BulletLines(n, bullet, off) \o <<"\n">>
        \o marker \o <<"\n">> \o Chars("some notes")

BulletChars == {"-", Bullet, "*"}

ShapedResponses ==
    {Shaped(n, b, off, m) : n \in 0..MaxKwLines, b \in BulletChars,
                            off \in 0..(Len(Items) - 1), m \in {NOTES, ANALYSIS}}

\* backend responses of the parsers' specification
ParseResponses == FreeResponses \cup ShapedResponses

Clock == 1..MaxClock

---------------------------------------------------------------------------
(* The operations *)

\* the entries of the log: groq_generate was called with prompt p, and that
\* call returned or raised
Called(p) == [event |-> "call", template |-> p.template, max_tokens |-> p.max_tokens]
Returned(p) == [event |-> "return", template |-> p.template, max_tokens |-> p.max_tokens]
Raised(p) == [event |-> "raise", template |-> p.template, max_tokens |-> p.max_tokens]

\* no run of run_research_pipeline is under way
PipelineIdle ==
    /\ stage = "none"
    /\ research = NoResult
    /\ summary = <<>>
    /\ critique = NoResult

\* requests.post has returned nothing yet
NoReply == [status_code |-> 0, text |-> <<>>]

\* no call of groq_generate is being followed
AdapterIdle ==
    /\ reply = NoReply
    /\ message = <<>>

Invocations == 1..MaxInvocations

\* the frame of an invocation: its arguments, the responses the backend gave
\* to its own calls, and what it returned or raised
NoFrame ==
    [op |-> "none", pc |-> "idle", task |-> <<>>, document_text |-> NoDocument,
     responses |-> <<>>, result |-> NoResult, error |-> "none"]

\* no invocation has been made
ConcurrentIdle == inv = [i \in Invocations |-> NoFrame]

\* the task ids uuid4 gives; the temporary file of a task is named by its id
TaskIds == 1..MaxTasks

\* an empty dict, and d[k] = v
EmptyDict == [k \in {} |-> NoResult]
Put(d, k, v) == [x \in (DOMAIN d) \cup {k} |-> IF x = k THEN v ELSE d[x]]
\* os.unlink: the files without the one at path k
Unlink(d, k) == [x \in (DOMAIN d) \ {k} |-> d[x]]

\* the frame of a task nobody submitted
NoTask ==
    [pc |-> "none", file_path |-> 0, filename |-> <<>>, task |-> <<>>,
     document_text |-> <<>>, invoked |-> FALSE, calls |-> 0, result |-> NoResult]

\* app.py after import: empty dictionaries, no task, no file, no row
AppIdle ==
    /\ task_queue = EmptyDict
    /\ task_results = EmptyDict
    /\ background = [id \in TaskIds |-> NoTask]
    /\ temp_files = EmptyDict
    /\ task_rows = EmptyDict

\* no request was made yet; table research_history is empty
EndpointsIdle ==
    /\ served = <<>>
    /\ history_calls = <<>>
    /\ research_history = <<>>
    /\ request_files = EmptyDict

Init ==
    /\ pc = "idle"
    /\ op = "none"
    /\ task = <<>>
    /\ document_text = NoDocument
    /\ task_type = "none"
    /\ handler = "none"
    /\ prompt = NoPrompt
    /\ response = <<>>
    /\ result = NoResult
    /\ error = "none"
    /\ log = <<>>
    /\ PipelineIdle
    /\ AdapterIdle
    /\ ConcurrentIdle
    /\ AppIdle
    /\ EndpointsIdle

\* run_task_with_document(t, d), up to the handler's call of groq_generate:
\* the router classifies, the chain dispatches, the handler renders its prompt
RunTaskWithDocument(t, d) ==
    /\ pc = "idle"
    /\ pc' = "awaiting"
    /\ op' = "run_task_with_document"
    /\ task' = t
    /\ document_text' = d
    /\ task_type' = identify_task_type(t)
    /\ handler' = Dispatch(identify_task_type(t))
    /\ prompt' = HandlerPrompt(Dispatch(identify_task_type(t)), d, t)
    /\ log' = Append(log, Called(HandlerPrompt(Dispatch(identify_task_type(t)), d, t)))
    /\ UNCHANGED <<response, result, error, notCore>>

\* groq_generate returns r to the handler: the handler builds its record and
\* run_task_with_document merges the metadata in and returns
TaskBackendReturns(r, now) ==
    /\ pc = "awaiting"
    /\ op = "run_task_with_document"
    /\ response' = r
    /\ IF handler = "execute_keyword_extraction" /\ KeywordExtractionParse(r).raised
       THEN /\ pc' = "failed"
            /\ error' = "IndexError"
            /\ result' = NoResult
       ELSE /\ pc' = "done"
            /\ error' = "none"
            /\ result' = Update(HandlerRecord(handler, r),
                                TaskMetadata(task, task_type, document_text, now))
    /\ log' = Append(log, Returned(prompt))
    /\ UNCHANGED <<op, task, document_text, task_type, handler, prompt, notCore>>

\* researcher_agent(q, top_k_sources, d), up to its call of groq_generate
ResearcherAgent(q, d) ==
    /\ pc = "idle"
    /\ pc' = "awaiting"
    /\ op' = "researcher_agent"
    /\ task' = q
    /\ document_text' = d
    /\ prompt' = researcher_agent_prompt(q, d)
    /\ log' = Append(log, Called(researcher_agent_prompt(q, d)))
    /\ UNCHANGED <<task_type, handler, response, result, error, notCore>>

\* groq_generate returns r to researcher_agent, which parses it and returns
ResearcherBackendReturns(r) ==
    /\ pc = "awaiting"
    /\ op = "researcher_agent"
    /\ response' = r
    /\ IF ResearcherParse(r).raised
       THEN /\ pc' = "failed"
            /\ error' = "IndexError"
            /\ result' = NoResult
       ELSE /\ pc' = "done"
            /\ error' = "none"
            /\ result' = ResearcherRecord(r, document_text)
    /\ log' = Append(log, Returned(prompt))
    /\ UNCHANGED <<op, task, document_text, task_type, handler, prompt, notCore>>

\* the calls of groq_generate in a log
Calls(l) == SelectSeq(l, LAMBDA e : e.event = "call")

\* a caller that calls groq_generate once more after its first failure
BackendFailsRetried ==
    /\ pc = "awaiting"
    /\ IF \E i \in 1..Len(log) : log[i].event = "raise"
       THEN /\ pc' = "failed"
            /\ error' = "BackendError"
            /\ result' = NoResult
            /\ log' = Append(log, Raised(prompt))
       ELSE /\ log' = log \o <<Raised(prompt), Called(prompt)>>
            /\ UNCHANGED <<pc, error, result>>
    /\ UNCHANGED <<op, task, document_text, task_type, handler, prompt, response, notCore>>

\* a run_task_with_document that falls back to the general analysis when
\* another handler's backend call fails
BackendFailsFallback ==
    /\ pc = "awaiting"
    /\ IF op = "run_task_with_document" /\ handler # "execute_general_analysis"
       THEN /\ handler' = "execute_general_analysis"
            /\ prompt' = HandlerPrompt("execute_general_analysis", document_text, task)
            /\ log' = log \o <<Raised(prompt), Called(prompt')>>
            /\ UNCHANGED <<pc, error, result>>
       ELSE /\ pc' = "failed"
            /\ error' = "BackendError"
            /\ result' = NoResult
            /\ log' = Append(log, Raised(prompt))
            /\ UNCHANGED <<handler, prompt>>
    /\ UNCHANGED <<op, task, document_text, task_type, response, notCore>>

\* groq_generate raises (status_code != 200): neither the handler nor the
\* operation catches it
BackendFails ==
    /\ pc = "awaiting"
    /\ pc' = "failed"
    /\ error' = "BackendError"
    /\ result' = NoResult
    /\ log' = Append(log, Raised(prompt))
    /\ UNCHANGED <<op, task, document_text, task_type, handler, prompt, response, notCore>>

Next ==
    \/ \E c \in TaskCalls : RunTaskWithDocument(c[1], c[2])
    \/ \E r \in Responses, now \in Clock : TaskBackendReturns(r, now)
    \/ \E c \in ResearchCalls : ResearcherAgent(c[1], c[2])
    \/ \E r \in Responses : ResearcherBackendReturns(r)
    \/ BackendFails

Spec == Init /\ [][Next]_vars

---------------------------------------------------------------------------
(* The parsers alone: one call of each operation in flight, and every      *)
(* response of ParseResponses returned to it                               *)

ParseTask == Chars("list keywords")
ParseQuery == Chars("solar power")

InitParse ==
    /\ pc = "awaiting"
    /\ document_text \in {ShortDoc, NoDocument}
    /\ IF document_text = ShortDoc
       THEN /\ op = "run_task_with_document"
            /\ task = ParseTask
            /\ task_type = identify_task_type(ParseTask)
            /\ handler = Dispatch(identify_task_type(ParseTask))
            /\ prompt = HandlerPrompt(Dispatch(identify_task_type(ParseTask)), ShortDoc, ParseTask)
       ELSE /\ op = "researcher_agent"
            /\ task = ParseQuery
            /\ task_type = "none"
            /\ handler = "none"
            /\ prompt = researcher_agent_prompt(ParseQuery, NoDocument)
    /\ response = <<>>
    /\ result = NoResult
    /\ error = "none"
    /\ log = <<Called(prompt)>>
    /\ PipelineIdle
    /\ AdapterIdle
    /\ ConcurrentIdle
    /\ AppIdle
    /\ EndpointsIdle

NextParse ==
    \/ \E r \in ParseResponses : TaskBackendReturns(r, 1)
    \/ \E r \in ParseResponses : ResearcherBackendReturns(r)

SpecParse == InitParse /\ [][NextParse]_vars

---------------------------------------------------------------------------
(* run_research_pipeline: four agents in sequence, each awaited before the *)
(* next is called; no exception is caught                                  *)

\* the agents in the order run_research_pipeline calls them
Agents == <<"researcher_agent", "summarizer_agent", "critic_agent", "writer_agent">>

\* the document argument: None, the empty string, a short document
PipelineCalls == Queries \X {NoDocument, MkDoc(0), ShortDoc}

\* run_research_pipeline(q, top_k_sources, d), up to researcher_agent's call
\* of groq_generate
RunResearchPipeline(q, d) ==
    /\ pc = "idle"
    /\ pc' = "awaiting"
    /\ op' = "run_research_pipeline"
    /\ task' = q
    /\ document_text' = d
    /\ stage' = "researcher_agent"
    /\ prompt' = researcher_agent_prompt(q, d)
    /\ log' = Append(log, Called(researcher_agent_prompt(q, d)))
    /\ UNCHANGED <<task_type, handler, response, result, error, research, summary, critique, notPipeline>>

\* groq_generate returns r to researcher_agent; its record comes back to the
\* pipeline, which calls summarizer_agent with the notes
ResearcherStageReturns(r) ==
    /\ pc = "awaiting"
    /\ op = "run_research_pipeline"
    /\ stage = "researcher_agent"
    /\ response' = r
    /\ IF ResearcherParse(r).raised
       THEN /\ pc' = "failed"
            /\ error' = "IndexError"
            /\ log' = Append(log, Returned(prompt))
            /\ UNCHANGED <<stage, research, prompt>>
       ELSE /\ research' = ResearcherRecord(r, document_text)
            /\ stage' = "summarizer_agent"
            /\ prompt' = summarizer_agent_prompt(SummarizerArgument(ResearcherRecord(r, document_text)))
            /\ log' = log \o <<Returned(prompt), Called(prompt')>>
            /\ UNCHANGED <<pc, error>>
    /\ UNCHANGED <<op, task, document_text, task_type, handler, result, summary, critique, notPipeline>>

\* a pipeline that goes from the summary straight to the writer
SummarizerStageReturnsSkipping(r) ==
    /\ pc = "awaiting"
    /\ op = "run_research_pipeline"
    /\ stage = "summarizer_agent"
    /\ response' = r
    /\ summary' = r
    /\ critique' = critic_agent_record(<<>>)
    /\ stage' = "writer_agent"
    /\ prompt' = writer_agent_prompt(r, critic_agent_record(<<>>))
    /\ log' = log \o <<Returned(prompt), Called(prompt')>>
    /\ UNCHANGED <<pc, op, task, document_text, task_type, handler, result, error, research, notPipeline>>

\* groq_generate returns r to summarizer_agent, which returns it as the
\* summary; the pipeline calls critic_agent with it
SummarizerStageReturns(r) ==
    /\ pc = "awaiting"
    /\ op = "run_research_pipeline"
    /\ stage = "summarizer_agent"
    /\ response' = r
    /\ summary' = r
    /\ stage' = "critic_agent"
    /\ prompt' = critic_agent_prompt(r)
    /\ log' = log \o <<Returned(prompt), Called(prompt')>>
    /\ UNCHANGED <<pc, op, task, document_text, task_type, handler, result, error, research, critique, notPipeline>>

\* groq_generate returns r to critic_agent; the pipeline calls writer_agent
\* with the summary and the critique record
CriticStageReturns(r) ==
    /\ pc = "awaiting"
    /\ op = "run_research_pipeline"
    /\ stage = "critic_agent"
    /\ response' = r
    /\ critique' = critic_agent_record(r)
    /\ stage' = "writer_agent"
    /\ prompt' = writer_agent_prompt(summary, critic_agent_record(r))
    /\ log' = log \o <<Returned(prompt), Called(prompt')>>
    /\ UNCHANGED <<pc, op, task, document_text, task_type, handler, result, error, research, summary, notPipeline>>

\* groq_generate returns r to writer_agent; the pipeline returns its record
WriterStageReturns(r) ==
    /\ pc = "awaiting"
    /\ op = "run_research_pipeline"
    /\ stage = "writer_agent"
    /\ response' = r
    /\ pc' = "done"
    /\ result' = PipelineRecord(research, summary, critique, r, document_text)
    /\ log' = Append(log, Returned(prompt))
    /\ UNCHANGED <<op, task, document_text, task_type, handler, prompt, error, pipelineVars, notPipeline>>

NextPipeline ==
    \/ \E c \in PipelineCalls : RunResearchPipeline(c[1], c[2])
    \/ \E r \in Responses : ResearcherStageReturns(r)
    \/ \E r \in Responses : SummarizerStageReturns(r)
    \/ \E r \in Responses : CriticStageReturns(r)
    \/ \E r \in Responses : WriterStageReturns(r)
    \/ BackendFails

SpecPipeline == Init /\ [][NextPipeline]_vars

---------------------------------------------------------------------------
(* groq_generate: one requests.post, a test of the status code, and the    *)
(* content of the first choice of the JSON body                            *)

StartsWith(s, p) == Len(s) >= Len(p) /\ SubSeq(s, 1, Len(p)) = p
EndsWith(s, p) == Len(s) >= Len(p) /\ SubSeq(s, Len(s) - Len(p) + 1, Len(s)) = p

\* the JSON text around the content of a chat completion with one choice
CompletionOpen == Chars("{\"choices\":[{\"message\":{\"content\":\"")
CompletionClose == Chars("\"}}]}")
NoChoices == Chars("{\"choices\":[]}")

\* response.json()["choices"][0]["message"]["content"]: the content, or the
\* exception json() or a subscript raises
CompletionContent(text) ==
    IF StartsWith(text, CompletionOpen) /\ EndsWith(text, CompletionClose)
          /\ Len(text) >= Len(CompletionOpen) + Len(CompletionClose)
    THEN [raised |-> "none",
          content |-> SubSeq(text, Len(CompletionOpen) + 1, Len(text) - Len(CompletionClose))]
    ELSE IF text = NoChoices
    THEN [raised |-> "IndexError", content |-> <<>>]
    ELSE IF StartsWith(text, Chars("{")) /\ EndsWith(text, Chars("}"))
    THEN [raised |-> "KeyError", content |-> <<>>]
    ELSE [raised |-> "JSONDecodeError", content |-> <<>>]

GroqApiError == Chars("Groq API Error: ")

\* the test of the status code: a reply counts as an error unless it is 200
StatusIsError(code) == code # 200

\* the status codes and the bodies the upstream answers with
StatusCodes == {200, 201, 202, 400, 401, 429, 500, 503}

Bodies ==
    {CompletionOpen \o Chars("solar power is cheap") \o CompletionClose,
     CompletionOpen \o CompletionClose,
     NoChoices,
     Chars("{\"error\":{\"message\":\"Rate limit reached\"}}"),
     Chars("<html>502 Bad Gateway</html>"),
     <<>>}

Replies == [status_code : StatusCodes, text : Bodies]

\* the prompts groq_generate is called with: with max_tokens, and without
AdapterCalls ==
    {summarizer_agent_prompt(Chars("some notes")),
     critic_agent_prompt(Chars("a summary")),
     [template |-> "chat", inputs |-> <<Chars("hello")>>, max_tokens |-> 300]}

Posted(p) == [event |-> "post", template |-> p.template, max_tokens |-> p.max_tokens]

\* groq_generate(p), up to requests.post
GroqGenerate(p) ==
    /\ pc = "idle"
    /\ pc' = "awaiting"
    /\ op' = "groq_generate"
    /\ prompt' = p
    /\ log' = Append(log, Posted(p))
    /\ UNCHANGED <<result, error, adapterVars, notAdapter>>

\* requests.post returns the upstream's reply: groq_generate raises unless
\* the status is 200, and returns the content of the first choice otherwise
UpstreamReplies(rep) ==
    /\ pc = "awaiting"
    /\ op = "groq_generate"
    /\ reply' = rep
    /\ IF StatusIsError(rep.status_code)
       THEN /\ pc' = "failed"
            /\ error' = "Exception"
            /\ message' = GroqApiError \o rep.text
            /\ result' = NoResult
       ELSE IF CompletionContent(rep.text).raised # "none"
       THEN /\ pc' = "failed"
            /\ error' = CompletionContent(rep.text).raised
            /\ message' = <<>>
            /\ result' = NoResult
       ELSE /\ pc' = "done"
            /\ error' = "none"
            /\ message' = <<>>
            /\ result' = CompletionContent(rep.text).content
    /\ UNCHANGED <<op, prompt, log, notAdapter>>

\* requests.post raises (no connection, timeout of the socket): the
\* exception leaves groq_generate
NetworkFails ==
    /\ pc = "awaiting"
    /\ op = "groq_generate"
    /\ pc' = "failed"
    /\ error' = "ConnectionError"
    /\ result' = NoResult
    /\ UNCHANGED <<op, prompt, log, adapterVars, notAdapter>>

NextAdapter ==
    \/ \E p \in AdapterCalls : GroqGenerate(p)
    \/ \E rep \in Replies : UpstreamReplies(rep)
    \/ NetworkFails

SpecAdapter == Init /\ [][NextAdapter]_vars

---------------------------------------------------------------------------
(* Concurrent invocations of run_task_with_document and                    *)
(* run_research_pipeline: each has its own locals, the module-level names  *)
(* they share are never assigned, and any interleaving of their backend    *)
(* calls is allowed                                                        *)

ConcurrentCalls ==
    {<<"run_task_with_document", Chars("list keywords"), ShortDoc>>,
     <<"run_research_pipeline", Chars("solar power"), NoDocument>>}

ConcurrentResponses == {ExampleResponse, Chars("no sections")}

\* run_task_with_document resumed with the response r of its one call
TaskResumed(f, r, now) ==
    LET kind == identify_task_type(f.task)
    IN  IF Dispatch(kind) = "execute_keyword_extraction" /\ KeywordExtractionParse(r).raised
        THEN [f EXCEPT !.responses = Append(@, r), !.pc = "failed", !.error = "IndexError"]
        ELSE [f EXCEPT !.responses = Append(@, r), !.pc = "done",
                       !.result = Update(HandlerRecord(Dispatch(kind), r),
                                         TaskMetadata(f.task, kind, f.document_text, now))]

\* run_research_pipeline resumed with the response r of the call in flight:
\* the next agent is called, or after the writer the record is returned
PipelineResumed(f, r) ==
    LET rs == Append(f.responses, r)
    IN  IF Len(rs) = 1 /\ ResearcherParse(r).raised
        THEN [f EXCEPT !.responses = rs, !.pc = "failed", !.error = "IndexError"]
        ELSE IF Len(rs) < Len(Agents)
        THEN [f EXCEPT !.responses = rs]
        ELSE [f EXCEPT !.responses = rs, !.pc = "done",
                       !.result = PipelineRecord(ResearcherRecord(rs[1], f.document_text), rs[2],
                                                 critic_agent_record(rs[3]), rs[4],
                                                 f.document_text)]

\* invocation i is made with the call c and reaches its first backend call
Invoke(i, c) ==
    /\ inv[i].pc = "idle"
    /\ inv' = [inv EXCEPT ![i] = [NoFrame EXCEPT !.op = c[1], !.pc = "awaiting",
                                                 !.task = c[2], !.document_text = c[3]]]
    /\ UNCHANGED notConcurrent

\* groq_generate returns r to invocation i
BackendReturnsTo(i, r, now) ==
    /\ inv[i].pc = "awaiting"
    /\ inv' = [inv EXCEPT ![i] = IF inv[i].op = "run_task_with_document"
                                 THEN TaskResumed(inv[i], r, now)
                                 ELSE PipelineResumed(inv[i], r)]
    /\ UNCHANGED notConcurrent

\* a backend failure that ends every invocation that is waiting
BackendFailsForAll(i) ==
    /\ inv[i].pc = "awaiting"
    /\ inv' = [j \in Invocations |->
                 IF inv[j].pc = "awaiting"
                 THEN [inv[j] EXCEPT !.pc = "failed", !.error = "BackendError"]
                 ELSE inv[j]]
    /\ UNCHANGED notConcurrent

\* groq_generate raises in invocation i: the exception leaves that invocation
BackendFailsFor(i) ==
    /\ inv[i].pc = "awaiting"
    /\ inv' = [inv EXCEPT ![i] = [@ EXCEPT !.pc = "failed", !.error = "BackendError"]]
    /\ UNCHANGED notConcurrent

NextConcurrent ==
    \/ \E i \in Invocations, c \in ConcurrentCalls : Invoke(i, c)
    \/ \E i \in Invocations, r \in ConcurrentResponses, now \in Clock : BackendReturnsTo(i, r, now)
    \/ \E i \in Invocations : BackendFailsFor(i)

SpecConcurrent == Init /\ [][NextConcurrent]_vars

---------------------------------------------------------------------------
(* app.py: /execute_pdf_task stores the upload in a temporary file and     *)
(* queues execute_task_with_pdf, which extracts the text, runs             *)
(* run_task_with_document, records the outcome and removes the file        *)

\* a PDF: whether fitz can open it, and the text of its pages
PageNumbers == <<"1", "2", "3">>

\* the text gathered from the first n pages: a header and the stripped text
\* of every page that has any
RECURSIVE PagesText(_, _)
PagesText(pages, n) ==
    IF n = 0 THEN <<>>
    ELSE LET page_text == Strip(pages[n])
         IN  PagesText(pages, n - 1) \o
             (IF page_text # <<>>
              THEN Chars("\n\n[PAGE ") \o <<PageNumbers[n]>> \o Chars("]\n") \o page_text
              ELSE <<>>)

\* extract_text_from_pdf: "" when fitz raises
extract_text_from_pdf(pdf) ==
    IF pdf.readable THEN Strip(PagesText(pdf.pages, Len(pdf.pages))) ELSE <<>>

\* the uploads: a PDF with text, a scanned PDF whose pages hold no text,
\* and a file that is no PDF
Uploads ==
    {[readable |-> TRUE, pages |-> <<Chars(" budget 2024 "), Chars("\n")>>],
     [readable |-> TRUE, pages |-> <<Chars(" \n"), Chars("")>>],
     [readable |-> FALSE, pages |-> <<Chars("budget")>>]}

AppTasks == {Chars("Summary"), Chars("list keywords")}

AppResponses == {ExampleResponse}

\* the texts of the exceptions execute_task_with_pdf turns into a status
NoTextFound == Chars("No text found")
ListIndexOutOfRange == Chars("list index out of range")
DatabaseIsLocked == Chars("database is locked")

\* POST /execute_pdf_task: a fresh id, the upload written to a temporary
\* file, the task queued and its background task scheduled
ExecutePdfTask(id, pdf, t) ==
    /\ background[id].pc = "none"
    /\ temp_files' = Put(temp_files, id, pdf)
    /\ task_queue' = Put(task_queue, id, [status |-> "queued", progress |-> 10])
    /\ background' = [background EXCEPT ![id] =
                         [NoTask EXCEPT !.pc = "scheduled", !.file_path = id,
                                        !.filename = Chars("upload.pdf"), !.task = t]]
    /\ UNCHANGED <<task_results, task_rows, notApp>>

\* the text extract_text_from_pdf gives for every upload
ExtractedTexts == [pdf \in Uploads |-> extract_text_from_pdf(pdf)]

\* extract_text_from_pdf(file_path) for the file of task id
ExtractedText(id) == ExtractedTexts[temp_files[background[id].file_path]]

\* execute_task_with_pdf starts: the status becomes processing
TaskStarts(id) ==
    /\ background[id].pc = "scheduled"
    /\ task_queue' = Put(task_queue, id, [status |-> "processing", progress |-> 20])
    /\ background' = [background EXCEPT ![id] = [@ EXCEPT !.pc = "processing"]]
    /\ UNCHANGED <<temp_files, task_results, task_rows, notApp>>

\* a background task that hands whatever was extracted to the core
TaskExtractsUnchecked(id) ==
    /\ background[id].pc = "processing"
    /\ background' = [background EXCEPT ![id] =
                         [@ EXCEPT !.pc = "awaiting",
                                   !.document_text = ExtractedText(id),
                                   !.invoked = TRUE, !.calls = 1]]
    /\ UNCHANGED <<task_queue, temp_files, task_results, task_rows, notApp>>

\* the text is extracted; without text the status becomes the error
\* "No text found", the function returns and its finally clause removes the
\* file; with text run_task_with_document is called and reaches its backend
\* call
TaskExtracts(id) ==
    /\ background[id].pc = "processing"
    /\ IF ExtractedText(id) = <<>>
       THEN /\ task_queue' = Put(task_queue, id, [status |-> "error", message |-> NoTextFound])
            /\ background' = [background EXCEPT ![id] = [@ EXCEPT !.pc = "finished"]]
            /\ temp_files' = Unlink(temp_files, background[id].file_path)
       ELSE /\ background' = [background EXCEPT ![id] =
                                 [@ EXCEPT !.pc = "awaiting",
                                           !.document_text = ExtractedText(id),
                                           !.invoked = TRUE, !.calls = 1]]
            /\ UNCHANGED <<task_queue, temp_files>>
    /\ UNCHANGED <<task_results, task_rows, notApp>>

\* the record run_task_with_document returns to the background task
TaskRecord(f, r, now) ==
    Update(HandlerRecord(Dispatch(identify_task_type(f.task)), r),
           TaskMetadata(f.task, identify_task_type(f.task),
                        [present |-> TRUE, text |-> f.document_text], now))

\* a background task that keeps the record to itself
TaskBackendReturnsToUnstored(id, r, now) ==
    /\ background[id].pc = "awaiting"
    /\ background' = [background EXCEPT ![id] =
                         [@ EXCEPT !.pc = "stored", !.result = TaskRecord(background[id], r, now)]]
    /\ UNCHANGED <<task_queue, task_results, temp_files, task_rows, notApp>>

\* groq_generate returns r to the handler of task id and
\* run_task_with_document returns its record, which is stored in
\* task_results; an IndexError of the parser becomes the status error and
\* the finally clause removes the file
TaskBackendReturnsTo(id, r, now) ==
    /\ background[id].pc = "awaiting"
    /\ IF /\ Dispatch(identify_task_type(background[id].task)) = "execute_keyword_extraction"
          /\ KeywordExtractionParse(r).raised
       THEN /\ task_queue' = Put(task_queue, id, [status |-> "error", message |-> ListIndexOutOfRange])
            /\ background' = [background EXCEPT ![id] = [@ EXCEPT !.pc = "finished"]]
            /\ temp_files' = Unlink(temp_files, background[id].file_path)
            /\ UNCHANGED task_results
       ELSE /\ task_results' = Put(task_results, id,
                                   [status |-> "completed", result |-> TaskRecord(background[id], r, now)])
            /\ background' = [background EXCEPT ![id] =
                                 [@ EXCEPT !.pc = "stored",
                                           !.result = TaskRecord(background[id], r, now)]]
            /\ UNCHANGED <<task_queue, temp_files>>
    /\ UNCHANGED <<task_rows, notApp>>

\* the status becomes completed
TaskCompletes(id) ==
    /\ background[id].pc = "stored"
    /\ task_queue' = Put(task_queue, id, [status |-> "completed", progress |-> 100])
    /\ background' = [background EXCEPT ![id] = [@ EXCEPT !.pc = "saving"]]
    /\ UNCHANGED <<task_results, temp_files, task_rows, notApp>>

\* a background task that leaves the file when save_task_result raises
TaskSavesLeavingFile(id, saved) ==
    /\ background[id].pc = "saving"
    /\ IF saved
       THEN /\ task_rows' = Put(task_rows, id,
                                [filename |-> background[id].filename,
                                 task |-> background[id].task,
                                 result |-> background[id].result,
                                 status |-> "completed"])
            /\ temp_files' = Unlink(temp_files, background[id].file_path)
            /\ UNCHANGED task_queue
       ELSE /\ task_queue' = Put(task_queue, id, [status |-> "error", message |-> DatabaseIsLocked])
            /\ UNCHANGED <<task_rows, temp_files>>
    /\ background' = [background EXCEPT ![id] = [@ EXCEPT !.pc = "finished"]]
    /\ UNCHANGED <<task_results, notApp>>

\* save_task_result inserts the row, or raises (sqlite3.OperationalError) and
\* the status becomes the error; the finally clause removes the file
TaskSaves(id, saved) ==
    /\ background[id].pc = "saving"
    /\ IF saved
       THEN /\ task_rows' = Put(task_rows, id,
                                [filename |-> background[id].filename,
                                 task |-> background[id].task,
                                 result |-> background[id].result,
                                 status |-> "completed"])
            /\ UNCHANGED task_queue
       ELSE /\ task_queue' = Put(task_queue, id, [status |-> "error", message |-> DatabaseIsLocked])
            /\ UNCHANGED task_rows
    /\ background' = [background EXCEPT ![id] = [@ EXCEPT !.pc = "finished"]]
    /\ temp_files' = Unlink(temp_files, background[id].file_path)
    /\ UNCHANGED <<task_results, notApp>>

\* a background task that swallows the exception of groq_generate
TaskBackendFailsForSilently(id) ==
    /\ background[id].pc = "awaiting"
    /\ background' = [background EXCEPT ![id] = [@ EXCEPT !.pc = "finished"]]
    /\ temp_files' = Unlink(temp_files, background[id].file_path)
    /\ UNCHANGED <<task_queue, task_results, task_rows, notApp>>

\* groq_generate raises in the handler of task id: the status becomes the
\* error, nothing is stored, the file is removed
TaskBackendFailsFor(id) ==
    /\ background[id].pc = "awaiting"
    /\ task_queue' = Put(task_queue, id, [status |-> "error", message |-> GroqApiError])
    /\ background' = [background EXCEPT ![id] = [@ EXCEPT !.pc = "finished"]]
    /\ temp_files' = Unlink(temp_files, background[id].file_path)
    /\ UNCHANGED <<task_results, task_rows, notApp>>

NextApp ==
    \/ \E id \in TaskIds, pdf \in Uploads, t \in AppTasks : ExecutePdfTask(id, pdf, t)
    \/ \E id \in TaskIds : TaskStarts(id)
    \/ \E id \in TaskIds : TaskExtracts(id)
    \/ \E id \in TaskIds, r \in AppResponses, now \in Clock : TaskBackendReturnsTo(id, r, now)
    \/ \E id \in TaskIds : TaskCompletes(id)
    \/ \E id \in TaskIds, saved \in BOOLEAN : TaskSaves(id, saved)
    \/ \E id \in TaskIds : TaskBackendFailsFor(id)

SpecApp == Init /\ [][NextApp]_vars

\* a step of the background task of task id
BackgroundStep(id) ==
    \/ TaskStarts(id)
    \/ TaskExtracts(id)
    \/ \E r \in AppResponses, now \in Clock : TaskBackendReturnsTo(id, r, now)
    \/ TaskBackendFailsFor(id)
    \/ TaskCompletes(id)
    \/ \E saved \in BOOLEAN : TaskSaves(id, saved)

\* the event loop runs a background task whenever one is ready, and a step
\* that waits (the backend call, save_task_result) returns or fails; since
\* every task has finitely many steps, no submitted task is left behind
FairApp == WF_vars(\E id \in TaskIds : BackgroundStep(id))

SpecAppFair == Init /\ [][NextApp]_vars /\ FairApp

---------------------------------------------------------------------------
(* app.py: the request endpoints /run_research, /chat, /analyze_image and  *)
(* /quick_pdf_analysis.  groq_generate is a blocking call, so a handler    *)
(* runs from its first line to its return without another one in between:  *)
(* one action is one request.                                              *)

MaxRequests == 2
RequestIds == 1..MaxRequests

ChatMessages == {Chars("hello")}
ImageTasks == {Chars("Describe this image")}
QuickTasks == {Chars("Analyze this document"), Chars("Extract KEYWORDS")}

\* an uploaded image: what extract_text_from_image reads in it
Images == {[ocr_text |-> Chars("STOP")], [ocr_text |-> <<>>]}

\* the four responses of the backend to the agents of one pipeline run
PipelineResponses ==
    {<<ExampleResponse, Chars("a summary"), Chars("a critique"), Chars("a report")>>,
     <<Chars("no markers"), Chars("a summary"), Chars("a critique"), Chars("a report")>>}

\* str(e) of the exception groq_generate raises for a reply that is not 200
RateLimited == GroqApiError \o Chars("rate limit")
NoTextFoundInPdf == Chars("No text found in PDF")

\* str(x) of a dictionary: a text, not the dictionary
PyStr(x) == [str |-> x]

\* the parameters of save_history, all of them required
SaveHistoryParameters ==
    <<"query", "sources", "notes", "summary", "critique", "final_report">>

\* save_history(*args) on the table rows: a call that does not bind every
\* parameter raises TypeError before the body runs; otherwise one row is inserted
save_history(rows, args) ==
    IF Len(args) # Len(SaveHistoryParameters)
    THEN [raised |-> TRUE, rows |-> rows]
    ELSE [raised |-> FALSE,
          rows |-> Append(rows, [id |-> Len(rows) + 1, values |-> args])]

\* "try: save_history(*args) except: pass" in the handler of request n
HistoryCalled(n, args) ==
    /\ history_calls' = Append(history_calls, [request |-> n, args |-> args])
    /\ research_history' = save_history(research_history, args).rows

\* the request being handled is the next one
NextRequest == Len(served) + 1

\* the record run_research_pipeline(query, top_k_sources) returns for the
\* responses rs of the backend; it raises when the researcher's parse does
PipelineRaises(rs) == ResearcherParse(rs[1]).raised

PipelineReturn(rs) ==
    PipelineRecord(ResearcherRecord(rs[1], NoDocument), rs[2], critic_agent_record(rs[3]),
                   rs[4], NoDocument)

\* POST /run_research: the pipeline's record is returned as it is
run_research(query, rs, ok) ==
    /\ NextRequest \in RequestIds
    /\ served' = Append(served,
                        IF ok /\ ~PipelineRaises(rs)
                        THEN [endpoint |-> "/run_research", input |-> query, status |-> 200,
                              body |-> PipelineReturn(rs)]
                        ELSE [endpoint |-> "/run_research", input |-> query, status |-> 500,
                              body |-> NoResult])
    /\ UNCHANGED <<history_calls, research_history, request_files, notEndpoints>>

\* POST /chat
chat_endpoint(m, r, ok) ==
    /\ NextRequest \in RequestIds
    /\ IF ok
       THEN /\ HistoryCalled(NextRequest, <<m, r, Chars("chat")>>)
            /\ served' = Append(served, [endpoint |-> "/chat", input |-> m, status |-> 200,
                                         body |-> [response |-> r]])
       ELSE /\ served' = Append(served, [endpoint |-> "/chat", input |-> m, status |-> 200,
                                         body |-> [error |-> RateLimited]])
            /\ UNCHANGED <<history_calls, research_history>>
    /\ UNCHANGED <<request_files, notEndpoints>>

\* analyze_image_with_llm_and_ocr: it catches its own exceptions
analyze_image_with_llm_and_ocr(img, r, ok, now) ==
    IF ok
    THEN [analysis |-> r, extracted_text |-> img.ocr_text, timestamp |-> now]
    ELSE [error |-> RateLimited]

\* POST /analyze_image: the temporary file is written, analysed and deleted;
\* the metadata is added and save_history is called whatever the analysis gave
analyze_image_endpoint(img, t, r, ok, now) ==
    LET analysed == analyze_image_with_llm_and_ocr(img, r, ok, now)
        res == Update(analysed, [filename |-> Chars("upload.jpg"), task |-> t,
                                 timestamp |-> now])
    IN  /\ NextRequest \in RequestIds
        /\ HistoryCalled(NextRequest, <<Chars("Image analysis: ") \o t, PyStr(res),
                                        Chars("image")>>)
        /\ served' = Append(served, [endpoint |-> "/analyze_image", input |-> t,
                                     status |-> 200, body |-> res])
        /\ UNCHANGED <<request_files, notEndpoints>>

\* the prompt /quick_pdf_analysis builds for the task and the extracted text
QuickPrompt(t, text) ==
    [template |-> IF Contains(Lower(t), Chars("keyword")) \/ Contains(Lower(t), Chars("extract"))
                  THEN "keywords"
                  ELSE IF Contains(Lower(t), Chars("summary")) THEN "summary" ELSE "task",
     body |-> Slice(text, 2000), max_tokens |-> 500]

\* POST /quick_pdf_analysis: the upload is written to a temporary file; the
\* file is deleted after the backend's response, on that path only
quick_pdf_analysis(pdf, t, r, ok, now) ==
    LET text == ExtractedTexts[pdf]
        res == [response |-> r, filename |-> Chars("upload.pdf"), task |-> t,
                text_length |-> Len(text), timestamp |-> now]
    IN  /\ NextRequest \in RequestIds
        /\ IF text = <<>>
           THEN /\ request_files' = Put(request_files, NextRequest, pdf)
                /\ served' = Append(served, [endpoint |-> "/quick_pdf_analysis", input |-> t,
                                             status |-> 200,
                                             body |-> [error |-> NoTextFoundInPdf]])
                /\ UNCHANGED <<history_calls, research_history>>
           ELSE IF ~ok
           THEN /\ request_files' = Put(request_files, NextRequest, pdf)
                /\ served' = Append(served, [endpoint |-> "/quick_pdf_analysis", input |-> t,
                                             status |-> 200,
                                             body |-> [error |-> RateLimited,
                                                       message |-> Chars("PDF analysis failed")]])
                /\ UNCHANGED <<history_calls, research_history>>
           ELSE /\ request_files' = Unlink(Put(request_files, NextRequest, pdf), NextRequest)
                /\ HistoryCalled(NextRequest, <<Chars("PDF analysis: ") \o t, PyStr(res),
                                                Chars("pdf")>>)
                /\ served' = Append(served, [endpoint |-> "/quick_pdf_analysis", input |-> t,
                                             status |-> 200, prompt |-> QuickPrompt(t, text),
                                             body |-> res])
        /\ UNCHANGED notEndpoints

NextEndpoints ==
    \/ \E q \in Queries, rs \in PipelineResponses, ok \in BOOLEAN : run_research(q, rs, ok)
    \/ \E m \in ChatMessages, ok \in BOOLEAN : chat_endpoint(m, ExampleResponse, ok)
    \/ \E img \in Images, t \in ImageTasks, ok \in BOOLEAN, now \in Clock :
          analyze_image_endpoint(img, t, ExampleResponse, ok, now)
    \/ \E pdf \in Uploads, t \in QuickTasks, ok \in BOOLEAN, now \in Clock :
          quick_pdf_analysis(pdf, t, ExampleResponse, ok, now)

SpecEndpoints == Init /\ [][NextEndpoints]_vars

---------------------------------------------------------------------------
(* Properties of the router *)

\* the (kind, keyword set) pairs in their priority order
RouterTable ==
    << <<"keyword_extraction",
         {Chars("keyword"), Chars("extract keyword"), Chars("list keyword"), Chars("find keyword")}>>,
       <<"summarization",
         {Chars("summarize"), Chars("summary"), Chars("main points"), Chars("brief"), Chars("overview")}>>,
       <<"date_extraction",
         {Chars("date"), Chars("timeline"), Chars("when"), Chars("year"), Chars("schedule")}>>,
       <<"recommendation_extraction",
         {Chars("recommend"), Chars("suggest"), Chars("advice"), Chars("proposal")}>>,
       <<"analysis",
         {Chars("analyze"), Chars("analysis"), Chars("evaluate"), Chars("assess"), Chars("review")}>>,
       <<"information_extraction",
         {Chars("find"), Chars("extract"), Chars("list"), Chars("identify"), Chars("locate")}>> >>

\* the pairs one of whose keywords is a substring of the lower-cased t
MatchingPairs(t) ==
    LET lowered == Lower(t)
    IN  {i \in 1..Len(RouterTable) : \E k \in RouterTable[i][2] : Contains(lowered, k)}

FirstMatchingPair(t) ==
    LET matching == MatchingPairs(t)
    IN  CHOOSE i \in matching : \A j \in matching : i <= j

TaskKinds ==
    {"keyword_extraction", "summarization", "date_extraction", "recommendation_extraction",
     "analysis", "information_extraction", "general_analysis"}

Classified == op = "run_task_with_document"

\* C1: the kind resolved for a task description that holds a keyword of some
\* pair is the kind of the first pair, in priority order, one of whose
\* keywords is a substring of the lower-cased description; so the
\* earlier-listed of two matching categories wins, whatever the letter case
\* and wherever the keywords stand.
C1_RouterPriority ==
    (Classified /\ MatchingPairs(task) # {})
        => task_type = RouterTable[FirstMatchingPair(task)][1]

\* "please summarize the timeline" (summarization and date_extraction both
\* match) was classified, as summarization
C1_Witness ==
    /\ Classified
    /\ task = ExampleTask
    /\ MatchingPairs(task) = {2, 3}
    /\ task_type = "summarization"

\* C2: identify_task_type returns, for every task description, the empty
\* one included, one value of the wire-visible enumeration.
C2_RouterTotal == Classified => task_type \in TaskKinds

\* the empty description was classified
C2_Witness == Classified /\ task = <<>> /\ task_type \in TaskKinds

\* C3: identify_task_type returns general_analysis exactly when the
\* lower-cased description holds no keyword of any of the six pairs.
C3_RouterDefault ==
    Classified => (task_type = "general_analysis" <=> MatchingPairs(task) = {})

\* a non-empty description without any keyword was classified, as general_analysis
C3_Witness ==
    /\ Classified
    /\ task = Chars("xx")
    /\ MatchingPairs(task) = {}
    /\ task_type = "general_analysis"

---------------------------------------------------------------------------
(* Properties of the parsers *)

ResearchReturned == pc = "done" /\ op = "researcher_agent"

KeywordExtractionReturned ==
    pc = "done" /\ op = "run_task_with_document" /\ handler = "execute_keyword_extraction"

\* C4: when one of the two expected markers is absent from the response, the
\* keyword list returned is empty and the unstructured field (notes of the
\* Research stage, analysis of keyword_extraction) is the raw response,
\* character for character.
C4_GracefulDegradation ==
    /\ (ResearchReturned /\ ~(Contains(response, KEYWORDS) /\ Contains(response, NOTES)))
          => (result.keywords = <<>> /\ result.notes = response)
    /\ (KeywordExtractionReturned
            /\ ~(Contains(response, KEYWORDS) /\ Contains(response, ANALYSIS)))
          => (result.keywords = <<>> /\ result.analysis = response)

\* the Research stage returned a response that holds KEYWORDS: but not NOTES:
\* and that ends in whitespace
C4_Witness ==
    /\ ResearchReturned
    /\ Contains(response, KEYWORDS)
    /\ ~Contains(response, NOTES)
    /\ Strip(response) # response
    /\ result.notes = response

\* C5: whatever string the backend returns, parsing raises nothing: the
\* Research stage and the keyword_extraction handler return a record with a
\* keyword list and an unstructured text field.
C5_ParsingNeverFails ==
    /\ error # "IndexError"
    /\ (pc = "failed") => (error = "BackendError")
    /\ ResearchReturned => {"keywords", "notes"} \subseteq DOMAIN result
    /\ KeywordExtractionReturned => {"keywords", "analysis"} \subseteq DOMAIN result

\* the Research stage returned a response with the markers in reverse order
\* and NOTES: repeated
C5_Witness ==
    /\ ResearchReturned
    /\ Find(response, NOTES) # 0
    /\ Find(response, NOTES) < Find(response, KEYWORDS)
    /\ Count(response, NOTES) > 1

\* C6: for a response 'KEYWORDS:' + '- item' lines + blank line + 'NOTES:' +
\* text, the Research stage returns exactly the items as keywords, in their
\* order and without the bullets, and the trimmed text as notes.  (At most 10
\* items: the cap of the stage is not at stake.)
C6_WellFormedParse ==
    ResearchReturned =>
        \A n \in 0..10, off \in 0..(Len(Items) - 1) :
            (response = Shaped(n, "-", off, NOTES))
                => /\ result.keywords = [i \in 1..n |-> Item(off + i)]
                   /\ result.notes = Chars("some notes")

\* C7: in both parsers a head-block line that starts with one of the bullets
\* '-', U+2022, '*' yields the line's text without the bullet and the
\* surrounding whitespace, and nothing else removed.
C7_UniformBulletStripping ==
    \A b \in BulletChars, off \in 0..(Len(Items) - 1) :
        /\ (ResearchReturned /\ response = Shaped(1, b, off, NOTES))
              => result.keywords = <<Item(off + 1)>>
        /\ (KeywordExtractionReturned /\ response = Shaped(1, b, off, ANALYSIS))
              => result.keywords = <<Item(off + 1)>>

\* C8: the Research stage returns at most 10 keywords and keyword_extraction
\* at most 20: the first 10 (20) of the keywords parsed, in their order.
C8_KeywordCaps ==
    /\ ResearchReturned =>
          LET parsed == ResearcherParse(response).keywords
          IN  /\ Len(result.keywords) <= 10
              /\ result.keywords = [i \in 1..Min(10, Len(parsed)) |-> parsed[i]]
    /\ KeywordExtractionReturned =>
          LET parsed == KeywordExtractionParse(response).keywords
          IN  /\ Len(result.keywords) <= 20
              /\ result.keywords = [i \in 1..Min(20, Len(parsed)) |-> parsed[i]]

\* keyword_extraction parsed more than 20 keywords and returned 20
C8_Witness ==
    /\ KeywordExtractionReturned
    /\ Len(KeywordExtractionParse(response).keywords) > 20
    /\ Len(result.keywords) = 20

---------------------------------------------------------------------------
(* Properties of the truncation *)

\* the budget of each prompt template
ClaimedBudget(template) ==
    CASE template = "execute_keyword_extraction"        -> 8000
      [] template = "execute_date_extraction"           -> 8000
      [] template = "execute_recommendation_extraction" -> 8000
      [] template = "execute_summarization"             -> 10000
      [] template = "execute_general_analysis"          -> 12000
      [] template = "researcher_agent"                  -> 15000

\* the prompt holds a document body
DocumentInPrompt ==
    \/ op = "run_task_with_document"
    \/ op = "researcher_agent" /\ document_text.present /\ document_text.text # <<>>

\* C9: the prompt of a handler holds the first min(len(document), B)
\* characters of the document and none beyond, B being 8000 for
\* keyword_extraction, date_extraction and recommendation_extraction, 10000
\* for summarization, 12000 for general_analysis and 15000 for the Research
\* stage with a document.
C9_PromptTruncation ==
    DocumentInPrompt =>
        LET m == Min(Len(document_text.text), ClaimedBudget(prompt.template))
        IN  /\ Len(prompt.body) = m
            /\ prompt.body = SubSeq(document_text.text, 1, m)

\* keyword_extraction was handed a document one character over its budget
\* and its prompt holds 8000 characters
C9_Witness ==
    /\ op = "run_task_with_document"
    /\ handler = "execute_keyword_extraction"
    /\ Len(document_text.text) = 8001
    /\ Len(prompt.body) = 8000

\* C10: processed_chars of the record run_task_with_document returns is
\* min(document length, budget of the handler that ran): the number of
\* document characters sent to the model.
C10_ProcessedChars ==
    (pc = "done" /\ op = "run_task_with_document") =>
        /\ result.processed_chars = Min(Len(document_text.text), ClaimedBudget(handler))
        /\ result.processed_chars = Len(prompt.body)

---------------------------------------------------------------------------
(* Properties of run_research_pipeline *)

\* a call of an agent of the pipeline is in flight
StageAwaiting(a) ==
    op = "run_research_pipeline" /\ pc = "awaiting" /\ stage = a

\* C11: the Summarize stage is invoked with only the notes of the Research
\* result, the Critique stage with only the Summarize output, and the Write
\* stage with only the Summarize output and the critique field of the
\* Critique result.
C11_PipelineDataFlow ==
    /\ StageAwaiting("summarizer_agent") => prompt.inputs = <<research.notes>>
    /\ StageAwaiting("critic_agent") => prompt.inputs = <<summary>>
    /\ StageAwaiting("writer_agent") => prompt.inputs = <<summary, critique.critique>>

\* the summarizer is called after a Research result with keywords, notes and
\* a document, none of which are the notes' text
C11_Witness ==
    /\ StageAwaiting("summarizer_agent")
    /\ research.keywords # <<>>
    /\ research.notes # <<>>
    /\ Truthy(document_text)
    /\ prompt.inputs = <<Chars("some notes")>>

\* the position of an agent in the order of the pipeline
StageIndex(a) == CHOOSE i \in 1..Len(Agents) : Agents[i] = a

\* C12: the backend is invoked in the order Research, Summarize, Critique,
\* Write, each call only after the previous stage's call has returned, and
\* a successful run makes exactly four backend calls, one per stage.
C12_StageOrdering ==
    op = "run_research_pipeline" =>
        /\ \A i \in 1..Len(log) :
              log[i].event = "call" =>
                  /\ i % 2 = 1
                  /\ (i + 1) \div 2 <= Len(Agents)
                  /\ log[i].template = Agents[(i + 1) \div 2]
                  /\ i > 1 => /\ log[i - 1].event = "return"
                              /\ log[i - 1].template = Agents[(i - 1) \div 2]
        /\ pc = "done" =>
              [i \in 1..Len(Calls(log)) |-> Calls(log)[i].template] = Agents

\* a run of the pipeline returned its record after four calls and four returns
C12_Witness ==
    /\ op = "run_research_pipeline"
    /\ pc = "done"
    /\ Len(log) = 8
    /\ result.final # <<>>

\* C13: when the backend call of stage k fails, the pipeline fails with that
\* error and returns no record, exactly k backend calls were made, the last
\* of them the failed one, and nothing happens afterwards: no later stage is
\* called and the failed one is not retried.
C13_FailFast ==
    /\ [](op = "run_research_pipeline" /\ error = "BackendError" =>
            /\ pc = "failed"
            /\ result = NoResult
            /\ Len(Calls(log)) = StageIndex(stage)
            /\ log[Len(log)] = Raised(prompt)
            /\ prompt.template = stage
            /\ \A i \in 1..Len(log) :
                  log[i].event = "call" => StageIndex(log[i].template) <= StageIndex(stage))
    /\ [][pc = "failed" => UNCHANGED vars]_vars

\* the Critique stage's backend call failed after Research and Summarize had
\* returned: three calls, none of the writer, and no record
C13_Witness ==
    /\ op = "run_research_pipeline"
    /\ pc = "failed"
    /\ error = "BackendError"
    /\ stage = "critic_agent"
    /\ research # NoResult
    /\ summary # <<>>
    /\ Len(Calls(log)) = 3
    /\ \A i \in 1..Len(log) : log[i].template # "writer_agent"

---------------------------------------------------------------------------
(* Properties of run_task_with_document *)

\* C14: every call of run_task_with_document runs exactly one handler and
\* makes exactly one backend call, whatever the task description; a backend
\* failure ends the call with that error, with no second call and no other
\* handler.
C14_OneHandlerOneCall ==
    op = "run_task_with_document" =>
        /\ Len(Calls(log)) = 1
        /\ {log[i].template : i \in 1..Len(log)} = {handler}
        /\ pc \in {"done", "failed"} => Len(log) = 2
        /\ error = "BackendError" =>
              /\ pc = "failed"
              /\ result = NoResult
              /\ log = <<Called(prompt), Raised(prompt)>>

\* the backend call of a task matching several categories failed
C14_Witness ==
    /\ op = "run_task_with_document"
    /\ Cardinality(MatchingPairs(task)) >= 2
    /\ pc = "failed"
    /\ error = "BackendError"
    /\ Len(Calls(log)) = 1

\* the handler every kind is expected to run
DispatchTable ==
    [keyword_extraction        |-> "execute_keyword_extraction",
     summarization             |-> "execute_summarization",
     date_extraction           |-> "execute_date_extraction",
     recommendation_extraction |-> "execute_recommendation_extraction",
     analysis                  |-> "execute_general_analysis",
     information_extraction    |-> "execute_general_analysis",
     general_analysis          |-> "execute_general_analysis"]

\* C15: keyword_extraction, summarization, date_extraction and
\* recommendation_extraction each run their own handler; analysis,
\* information_extraction and general_analysis all run the general_analysis
\* handler; no other handler is selected for any kind.
C15_DispatchMapping ==
    op = "run_task_with_document" =>
        /\ handler = DispatchTable[task_type]
        /\ prompt.template = DispatchTable[task_type]
        /\ log[1] = Called(HandlerPrompt(DispatchTable[task_type], document_text, task))

\* a task of kind information_extraction was answered by the general analysis
C15_Witness ==
    /\ op = "run_task_with_document"
    /\ task_type = "information_extraction"
    /\ handler = "execute_general_analysis"
    /\ pc = "done"
    /\ "analysis_complete" \in DOMAIN result

\* the metadata fields every returned record shares
SharedMetadataFields ==
    {"user_task", "task_type", "document_length", "processed_chars", "execution_timestamp"}

\* C16: every record run_task_with_document returns holds user_task,
\* task_type, document_length, processed_chars and execution_timestamp, with
\* user_task the original task text and document_length the full length of
\* the document.
C16_SharedMetadata ==
    (op = "run_task_with_document" /\ pc = "done") =>
        /\ SharedMetadataFields \subseteq DOMAIN result
        /\ result.user_task = task
        /\ result.document_length = Len(document_text.text)

\* a record returned for a document longer than every slice
C16_Witness ==
    /\ op = "run_task_with_document"
    /\ pc = "done"
    /\ Len(document_text.text) = 15001
    /\ result.document_length = 15001
    /\ Len(prompt.body) < 15001

\* C17: task_type of the returned record is the kind the router resolved for
\* the task text, also for analysis and information_extraction, whose
\* handler writes general_analysis into its own record.
C17_ResolvedTaskType ==
    (op = "run_task_with_document" /\ pc = "done") =>
        /\ result.task_type = identify_task_type(task)
        /\ result.task_type = task_type

\* the general analysis handler answered a task of kind analysis with a
\* record of task_type general_analysis, and the returned record says analysis
C17_Witness ==
    /\ op = "run_task_with_document"
    /\ pc = "done"
    /\ task_type = "analysis"
    /\ HandlerRecord(handler, response).task_type = "general_analysis"
    /\ result.task_type = "analysis"

---------------------------------------------------------------------------
(* Properties of groq_generate *)

\* a reply the upstream calls a success
Is2xx(code) == code >= 200 /\ code <= 299

\* C18: groq_generate makes exactly one outbound call per invocation; it
\* returns the generated text whenever the upstream replies with a 2xx
\* status and a well-formed body; it fails with an error carrying the
\* upstream message whenever the status is not 2xx; it never returns a value
\* on a failed call.
C18_AdapterContract ==
    op = "groq_generate" =>
        /\ Len(SelectSeq(log, LAMBDA e : e.event = "post")) = 1
        /\ (reply # NoReply /\ Is2xx(reply.status_code)
                /\ CompletionContent(reply.text).raised = "none") =>
              /\ pc = "done"
              /\ result = CompletionContent(reply.text).content
        /\ (reply # NoReply /\ ~Is2xx(reply.status_code)) =>
              /\ pc = "failed"
              /\ error # "none"
              /\ Len(message) >= Len(reply.text)
              /\ EndsWith(message, reply.text)
        /\ pc = "failed" => result = NoResult

---------------------------------------------------------------------------
(* Properties of concurrent invocations *)

\* the record an invocation returns, from its own arguments, the responses
\* to its own calls and its own reading of the clock
OwnRecord(f, now) ==
    IF f.op = "run_task_with_document"
    THEN Update(HandlerRecord(Dispatch(identify_task_type(f.task)), f.responses[1]),
                TaskMetadata(f.task, identify_task_type(f.task), f.document_text, now))
    ELSE PipelineRecord(ResearcherRecord(f.responses[1], f.document_text), f.responses[2],
                        critic_agent_record(f.responses[3]), f.responses[4], f.document_text)

\* the calls an invocation that has returned made
OwnCalls(f) == IF f.op = "run_task_with_document" THEN 1 ELSE Len(Agents)

---------------------------------------------------------------------------
(* Properties of execute_task_with_pdf *)

\* execute_task_with_pdf has run for the task and extracted no text
StartedWithoutText(id) ==
    /\ background[id].pc \in {"awaiting", "stored", "saving", "finished"}
    /\ background[id].document_text = <<>>

\* C20: when the text extracted for a task is empty, the task's status
\* becomes error with the message "No text found", run_task_with_document
\* is not invoked for it, no backend call is made and task_results gets no
\* entry.
C20_EmptyDocumentRejected ==
    \A id \in TaskIds :
        StartedWithoutText(id) =>
            /\ background[id].pc = "finished"
            /\ task_queue[id] = [status |-> "error", message |-> NoTextFound]
            /\ ~background[id].invoked
            /\ background[id].calls = 0
            /\ id \notin DOMAIN task_results
            /\ id \notin DOMAIN task_rows

\* a task without text was rejected and another task, with text, completed
C20_Witness ==
    \E id, other \in TaskIds :
        /\ StartedWithoutText(id)
        /\ task_queue[id].status = "error"
        /\ other \in DOMAIN task_results
        /\ task_queue[other].status = "completed"
        /\ background[other].calls = 1

---------------------------------------------------------------------------
(* Properties of the request endpoints *)

\* the calls of save_history made while request i was handled
HistoryCallsOf(i) == {j \in DOMAIN history_calls : history_calls[j].request = i}

\* C21: after every successful /run_research request, save_history has been
\* called once for it, with the query and the sources, notes, summary,
\* critique and final report of that run.
C21_ResearchSaved ==
    \A i \in DOMAIN served :
        (served[i].endpoint = "/run_research" /\ served[i].status = 200) =>
            /\ Cardinality(HistoryCallsOf(i)) = 1
            /\ \A j \in HistoryCallsOf(i) :
                  history_calls[j].args =
                      <<served[i].input, served[i].body.research.sources,
                        served[i].body.research.notes, served[i].body.summary,
                        served[i].body.critique, served[i].body.final>>

\* the endpoints that save an entry to the history
HistoryEndpoints == {"/chat", "/analyze_image", "/quick_pdf_analysis"}

\* the request answered by this step, if its backend call succeeded
BackendSucceeded(rec) == rec.endpoint \in HistoryEndpoints /\ "error" \notin DOMAIN rec.body

\* C22: when /chat, /analyze_image or /quick_pdf_analysis returns the
\* response of a successful backend call, one new row of research_history
\* exists, and it is the row of that request.
C22_HistorySaved ==
    [][(Len(served') = Len(served) + 1 /\ BackendSucceeded(served'[Len(served')])) =>
          /\ Len(research_history') = Len(research_history) + 1
          /\ research_history'[Len(research_history')].values[1]
                \in {served'[Len(served')].input,
                     Chars("Image analysis: ") \o served'[Len(served')].input,
                     Chars("PDF analysis: ") \o served'[Len(served')].input}]_vars

\* C27: once a /quick_pdf_analysis request has returned, on whichever path,
\* its temporary file does not exist.
C27_QuickFileRemoved ==
    \A i \in DOMAIN served :
        served[i].endpoint = "/quick_pdf_analysis" => i \notin DOMAIN request_files

---------------------------------------------------------------------------
(* Further properties of the records returned *)

\* C28: in every record run_research_pipeline returns, document_analysis is
\* true exactly when the Research stage treated the input as a document: its
\* sources are ["Document analysis"] and the document body was embedded in
\* its prompt; for every document_text, the empty string included.
C28_DocumentAnalysisFlag ==
    (op = "run_research_pipeline" /\ pc = "done") =>
        /\ result.document_analysis <=> (result.research.sources = <<"Document analysis">>)
        /\ result.document_analysis <=> researcher_agent_prompt(task, document_text).document

\* C29: in every record the keyword_extraction handler returns,
\* keyword_count is the number of entries of the returned keywords list.
C29_KeywordCount ==
    KeywordExtractionReturned => result.keyword_count = Len(result.keywords)

\* the text after the first occurrence of the marker first and before the
\* first occurrence of the marker second; empty when second comes earlier
MarkedSegment(resp, first, second) ==
    LET k == Find(resp, first)
        n == Find(resp, second)
    IN  IF k # 0 /\ k + Len(first) <= n
        THEN SubSeq(resp, k + Len(first), n - 1)
        ELSE <<>>

\* the trimmed text after the marker second
TextAfter(resp, second) ==
    Strip(SubSeq(resp, Find(resp, second) + Len(second), Len(resp)))

\* the cleaned lines lying between the markers
LinesBetween(resp, first, second, bullets) ==
    LET lines == KeywordLines(Strip(RemoveAll(MarkedSegment(resp, first, second), first)), bullets)
    IN  {lines[i] : i \in 1..Len(lines)}

\* C30: when both markers are present, every keyword returned by the
\* Research parser and by the keyword_extraction parser comes from a line
\* after KEYWORDS: and before the second marker (NOTES:, ANALYSIS:), and the
\* unstructured field is the trimmed text after the second marker; text
\* before KEYWORDS: never becomes a keyword, also when the markers stand in
\* reverse order or occur more than once.
C30_KeywordsBetweenMarkers ==
    /\ (ResearchReturned /\ Contains(response, KEYWORDS) /\ Contains(response, NOTES)) =>
          /\ {result.keywords[i] : i \in 1..Len(result.keywords)}
                \subseteq LinesBetween(response, KEYWORDS, NOTES, ResearcherBullets)
          /\ result.notes = TextAfter(response, NOTES)
    /\ (KeywordExtractionReturned /\ Contains(response, KEYWORDS) /\ Contains(response, ANALYSIS)) =>
          /\ {result.keywords[i] : i \in 1..Len(result.keywords)}
                \subseteq LinesBetween(response, KEYWORDS, ANALYSIS, KeywordBullets)
          /\ result.analysis = TextAfter(response, ANALYSIS)

---------------------------------------------------------------------------
(* Properties of the task queue *)

Status(id) == IF id \in DOMAIN task_queue THEN task_queue[id].status ELSE "none"

\* GET /task_status/{task_id}
get_task_status(task_id) ==
    IF task_id \in DOMAIN task_queue THEN task_queue[task_id] ELSE [error |-> Chars("Not found")]

\* GET /task_result/{task_id}
get_task_result(task_id) ==
    IF task_id \in DOMAIN task_results THEN task_results[task_id] ELSE [error |-> Chars("Not ready")]

\* C23: whenever a poll of /task_status reports completed for a task, a poll
\* of /task_result at that moment or at any later one gets that task's
\* result and never "Not ready": task_results already holds the result and
\* no entry of it is ever removed or replaced.
C23_ResultAvailable ==
    /\ [](\A id \in TaskIds :
            (get_task_status(id) = [status |-> "completed", progress |-> 100]) =>
                get_task_result(id) = [status |-> "completed", result |-> background[id].result])
    /\ [][\A id \in TaskIds :
            id \in DOMAIN task_results => get_task_result(id)' = get_task_result(id)]_vars

\* a task is reported completed while its row is not saved yet
C23_Witness ==
    \E id \in TaskIds :
        /\ Status(id) = "completed"
        /\ background[id].pc = "saving"
        /\ id \in DOMAIN task_results

\* the status a task may take next
StatusSuccessors(st) ==
    CASE st = "none"       -> {"queued"}
      [] st = "queued"     -> {"processing"}
      [] st = "processing" -> {"completed", "error"}
      [] OTHER             -> {}

\* C24: a task's status goes queued, processing, then one of completed and
\* error; completed and error never change again; a task with status error
\* has no result in task_results.
C24_StatusForward ==
    /\ [][\A id \in TaskIds :
            Status(id)' # Status(id) => Status(id)' \in StatusSuccessors(Status(id))]_vars
    /\ [](\A id \in TaskIds : Status(id) = "error" => id \notin DOMAIN task_results)

\* C25: every submitted task eventually reaches status completed or error:
\* none stays queued or processing forever.
C25_TaskTerminates ==
    \A id \in TaskIds :
        (Status(id) \in {"queued", "processing"}) ~> (Status(id) \in {"completed", "error"})

\* a task went all the way to completed and its row was saved
C25_Witness ==
    \E id \in TaskIds :
        /\ Status(id) = "completed"
        /\ background[id].pc = "finished"
        /\ id \in DOMAIN task_rows

\* C26: when execute_task_with_pdf has finished, on whichever path, the
\* temporary file of the upload is deleted.
C26_TempFileRemoved ==
    \A id \in TaskIds :
        /\ background[id].pc = "finished" => background[id].file_path \notin DOMAIN temp_files
        /\ background[id].pc \in {"scheduled", "processing", "awaiting", "stored", "saving"}
              => background[id].file_path \in DOMAIN temp_files

\* tasks finished on the path of a persistence failure and on the path of an
\* empty document, and no temporary file is left
C26_Witness ==
    \E id, other \in TaskIds :
        /\ background[id].pc = "finished"
        /\ Status(id) = "error"
        /\ task_queue[id].message = DatabaseIsLocked
        /\ background[other].pc = "finished"
        /\ Status(other) = "error"
        /\ task_queue[other].message = NoTextFound
        /\ temp_files = EmptyDict

=============================================================================
